---- MODULE Spec2Model ----
(***************************************************************************)
(* Model of scripts/render_config.py (ConfigRenderer and main) and of      *)
(* scripts/servicenow_integration.py (ServiceNowIntegration and main).     *)
(*                                                                         *)
(* Text is a sequence of one-character strings, so that strip, split and   *)
(* join are computed character by character as Python computes them.       *)
(***************************************************************************)
EXTENDS Integers, Sequences, FiniteSets, TLC

(***************************************************************************)
(* Bounds of the model.                                                    *)
(***************************************************************************)
\* longest text a single section template renders
MaxLen == 2
\* most characters all section templates render together (SpecCompose)
MaxChars == 3
\* longest text handed to validate_config in SpecValidate
MaxTextLen == 3
\* deepest nesting of the --output-dir path
MaxDepth == 2

(***************************************************************************)
(* Characters and the str methods the code uses.                           *)
(***************************************************************************)
SP == " "
NL == "\n"
TAB == "\t"
BANG == "!"

\* the characters str.strip() removes
Whitespace == {SP, NL, TAB}

RECURSIVE LStrip(_)
LStrip(s) ==
  IF s = <<>> THEN s
  ELSE IF Head(s) \in Whitespace THEN LStrip(Tail(s)) ELSE s

RECURSIVE RStrip(_)
RStrip(s) ==
  IF s = <<>> THEN s
  ELSE IF s[Len(s)] \in Whitespace THEN RStrip(SubSeq(s, 1, Len(s) - 1)) ELSE s

\* str.strip()
Strip(s) == RStrip(LStrip(s))

\* str.startswith(c) / str.endswith(c) for a one-character c
StartsWith(s, c) == s # <<>> /\ s[1] = c
EndsWith(s, c) == s # <<>> /\ s[Len(s)] = c

\* str.split('\n'): never empty, "" splits to [""]
RECURSIVE Split(_)
Split(s) ==
  IF \A i \in 1..Len(s) : s[i] # NL THEN <<s>>
  ELSE LET i == CHOOSE k \in 1..Len(s) :
                   s[k] = NL /\ \A j \in 1..(k - 1) : s[j] # NL
       IN  <<SubSeq(s, 1, i - 1)>> \o Split(SubSeq(s, i + 1, Len(s)))

\* "\n".join(parts)
RECURSIVE Join(_)
Join(parts) ==
  IF parts = <<>> THEN <<>>
  ELSE IF Len(parts) = 1 THEN parts[1]
  ELSE parts[1] \o <<NL>> \o Join(Tail(parts))

\* all texts over an alphabet up to a length
TextsUpTo(alphabet, n) == UNION {[1..k -> alphabet] : k \in 0..n}

(***************************************************************************)
(* ConfigRenderer: the template registry and one section's render.         *)
(***************************************************************************)
\* a registry iterated in sorted key order instead of insertion order
template_files_sorted ==
  <<"bgp", "interfaces", "routing_filters", "system", "vlans">>

\* self.template_files, in insertion order (dict.keys() iterates in it)
template_files == <<"bgp", "routing_filters", "interfaces", "vlans", "system">>

SectionNames == {template_files[i] : i \in 1..Len(template_files)}

\* what the templates directory holds for a section: no file, a template
\* whose application raises, or a template that renders a text
Missing == [kind |-> "missing", text |-> <<>>]
Faulty == [kind |-> "faulty", text |-> <<>>]
Renders(t) == [kind |-> "renders", text |-> t]

\* how render_template ends for a template state and a loaded document:
\* get_template raises TemplateNotFound before render is tried; render(**data)
\* raises TypeError when the document is not a mapping
RenderOutcome(tpl, doc) ==
  IF tpl.kind = "missing" THEN "notfound"
  ELSE IF doc # "mapping" THEN "fault"
  ELSE IF tpl.kind = "faulty" THEN "fault"
  ELSE "rendered"

\* a render_template that returns the diagnostic instead of "" on a fault
render_template_reports(tpl, doc) ==
  IF RenderOutcome(tpl, doc) = "notfound" THEN <<>>
  ELSE IF RenderOutcome(tpl, doc) = "fault" THEN <<"E">>
  ELSE tpl.text

\* the string render_template returns
render_template(tpl, doc) ==
  LET outcome == RenderOutcome(tpl, doc)
  IN  IF outcome = "notfound" THEN <<>>
      ELSE IF outcome = "fault" THEN <<>>
      ELSE tpl.text

\* the loop of render_all_templates: the registry positions it visits
SectionAt(i) == template_files[i]

\* a loop body's test that forgets the strip
KeepSection_nonempty(rendered) == rendered # <<>>

\* the loop body's test: rendered.strip() is truthy
KeepSection(rendered) == Strip(rendered) # <<>>


\* "\n".join(config_sections)
Combine(sections) == Join(sections)

(***************************************************************************)
(* ConfigRenderer.validate_config.                                         *)
(***************************************************************************)
\* the loop body for line number i: the line is stripped first, blank and
\* comment lines are skipped, and the stripped line is tested for a
\* trailing blank
LineFlagged(raw) ==
  LET line == Strip(raw)
  IN  IF line = <<>> \/ StartsWith(line, BANG) THEN FALSE
      ELSE EndsWith(line, SP)

\* validation_errors after the loop, as the line numbers reported
RECURSIVE ErrorsFrom(_, _)
ErrorsFrom(lines, i) ==
  IF i > Len(lines) THEN <<>>
  ELSE (IF LineFlagged(lines[i]) THEN <<i>> ELSE <<>>) \o ErrorsFrom(lines, i + 1)

ValidationErrors(text) == ErrorsFrom(Split(text), 1)

\* the value validate_config returns
validate_config(text) == ValidationErrors(text) = <<>>

(***************************************************************************)
(* The file system the run sees.                                           *)
(***************************************************************************)
Kinds == {"none", "dir", "file"}

\* Path.mkdir(exist_ok=True), parents left False: an existing directory is
\* accepted, an existing file raises FileExistsError, a missing parent
\* raises FileNotFoundError (a parent that is a file: NotADirectoryError)
mkdir(kind, parentIsDir) ==
  IF kind = "dir" THEN "exists"
  ELSE IF kind = "file" THEN "raise"
  ELSE IF parentIsDir THEN "created"
  ELSE "raise"

\* the destination file: absent, a directory in its place, or a file
FileAbsent == [kind |-> "absent", text |-> <<>>]
FileIsDir == [kind |-> "isdir", text |-> <<>>]
FileWith(t) == [kind |-> "file", text |-> t]
OldText == <<"o">>

\* a write that ends the file with a newline
WrittenText_newline(text) == text \o <<NL>>

\* f.write(complete_config): the text is written as it is
WrittenText(text) == text

\* open(output_file, 'w'): a directory in the file's place raises
WriteFile(file, text) ==
  IF file.kind = "isdir" THEN "raise" ELSE "written"

(***************************************************************************)
(* servicenow_integration.py: the environment, the two requests and the    *)
(* status mapping.                                                         *)
(***************************************************************************)
Unset == "<unset>"

\* os.getenv(name, default)
GetEnv(value, default) == IF value = Unset THEN default ELSE value

\* a mapping whose default is the first entry's label
status_mapping_review_default(status) ==
  IF status = "success" THEN "Review"
  ELSE IF status = "failure" THEN "Authorize"
  ELSE IF status = "cancelled" THEN "Cancelled"
  ELSE "Review"

\* status_mapping.get(workflow_status, 'Authorize')
status_mapping(status) ==
  IF status = "success" THEN "Review"
  ELSE IF status = "failure" THEN "Authorize"
  ELSE IF status = "cancelled" THEN "Cancelled"
  ELSE "Authorize"

\* an HTTP exchange: the request raised, or a response came back
NoResponse == [kind |-> "none", code |-> 0, json |-> FALSE, hasResult |-> FALSE,
               result |-> <<>>]
Raised == [kind |-> "exception", code |-> 0, json |-> FALSE, hasResult |-> FALSE,
           result |-> <<>>]
Response(code, json, hasResult, result) ==
  [kind |-> "http", code |-> code, json |-> json, hasResult |-> hasResult,
   result |-> result]

\* a change record as the lookup returns it
Record(id) == [has_sys_id |-> TRUE, sys_id |-> id]
RecordWithoutId == [has_sys_id |-> FALSE, sys_id |-> "none"]

SysIds == {"id1", "id2"}
StatusCodes == {200, 404, 500}

ResultLists ==
  {<<>>, <<RecordWithoutId>>} \cup {<<Record(i)>> : i \in SysIds}
    \cup {<<Record(i), Record(j)>> : i \in SysIds, j \in SysIds}

\* what the lookup request can come back with: an exception, or a status
\* code with a body that is not JSON, JSON without 'result', or JSON with
\* a result list
GetResponses ==
  {Raised} \cup {Response(c, FALSE, FALSE, <<>>) : c \in StatusCodes}
    \cup {Response(c, TRUE, FALSE, <<>>) : c \in StatusCodes}
    \cup {Response(c, TRUE, TRUE, r) : c \in StatusCodes, r \in ResultLists}

PutResponses == {Raised} \cup {Response(c, TRUE, FALSE, <<>>) : c \in StatusCodes}

\* a lookup that does not test the status code
LookupOutcome_anycode(resp) ==
  IF resp.kind = "exception" THEN "exception"
  ELSE IF ~resp.json THEN "exception"
  ELSE IF ~resp.hasResult \/ resp.result = <<>> THEN "return_false"
  ELSE IF ~resp.result[1].has_sys_id THEN "exception"
  ELSE "proceed"

\* update_change_request up to the update request: whether the lookup
\* lets it go on ("proceed"), returns False, or raises into the except
LookupOutcome(resp) ==
  IF resp.kind = "exception" THEN "exception"
  ELSE IF resp.code # 200 THEN "return_false"
  ELSE IF ~resp.json THEN "exception"
  ELSE IF ~resp.hasResult \/ resp.result = <<>> THEN "return_false"
  ELSE IF ~resp.result[1].has_sys_id THEN "exception"
  ELSE "proceed"

\* sys_id = data['result'][0]['sys_id']
TargetOf(resp) == resp.result[1].sys_id

\* the value update_change_request returns after the update request
UpdateReturns(resp) == resp.kind = "http" /\ resp.code = 200

(***************************************************************************)
(* State.                                                                  *)
(***************************************************************************)
VARIABLES
  pc,                \* where main() of render_config.py is
  output_dir,        \* args.output_dir: 0 when not given, else its depth
  validate,          \* args.validate
  chain,             \* kind of each prefix of the --output-dir path
  defaultOut,        \* kind of "output" in the working directory
  input,             \* the input source: nodir, missing, malformed, mapping, notmapping
  data,              \* the loaded document
  templates,         \* what the templates directory holds for each registry entry
  idx,               \* position of the loop over template_files
  config_sections,   \* the accumulator of render_all_templates
  appended,          \* section names whose text was appended (history)
  returned,          \* what render_template returned per visited section (history)
  complete_config,   \* the composed configuration
  outFile,           \* the destination file
  origFile,          \* the destination file before the run (history)
  config_text,       \* the argument of validate_config
  validation_errors, \* line numbers validate_config reported
  validation_passed, \* what validate_config returned
  validated,         \* whether validate_config ran (history)
  written,           \* whether the run wrote the destination file (history)
  exitCode,          \* process exit status of render_config.py
  failedIn,          \* component whose failure ended the run (history)
  spc,               \* where main() of servicenow_integration.py is
  creds,             \* whether instance url, username and password are all set
  workflow_status,   \* WORKFLOW_STATUS as read from the environment
  snow_status,       \* the status label passed to update_change_request
  getResp,           \* the response to the lookup
  putTarget,         \* the id the update was sent to
  putResp,           \* the response to the update
  success,           \* what update_change_request returned
  snowExit           \* process exit status of servicenow_integration.py

renderVars == <<pc, output_dir, validate, chain, defaultOut, input, data,
                templates, idx, config_sections, appended, returned,
                complete_config, outFile, origFile, config_text,
                validation_errors, validation_passed, validated, written,
                exitCode, failedIn>>
snowVars == <<spc, creds, workflow_status, snow_status, getResp, putTarget,
              putResp, success, snowExit>>
vars == <<renderVars, snowVars>>

None == "none"

\* the directory the constructor creates: args.output_dir or "output"
CtorTargetKind == IF output_dir = 0 THEN defaultOut ELSE chain[output_dir]
CtorParentIsDir == IF output_dir <= 1 THEN TRUE ELSE chain[output_dir - 1] = "dir"

\* the parent of output_file as main() resolves it: args.output_dir when
\* given, else the directory of the input source
DestParentExists ==
  IF output_dir > 0 THEN chain[output_dir] = "dir" ELSE input # "nodir"


(***************************************************************************)
(* Initial states: the command line, the file system and the templates     *)
(* directory a run of render_config.py starts from.                        *)
(***************************************************************************)
Depths == 1..MaxDepth

\* a path's prefixes: below a prefix that is no directory nothing exists,
\* and prefixes past the given depth are not part of the path
ValidChain(c, d) ==
  \A k \in Depths :
    /\ k > d => c[k] = "none"
    /\ (k > 1 /\ c[k] # "none") => c[k - 1] = "dir"

Inputs == {"nodir", "missing", "malformed", "mapping", "notmapping"}

\* templates a pipeline run is tried with
PipelineTemplates == {Missing, Renders(<<"a">>), Renders(<<"a", SP>>)}

\* templates the composer is tried with
ComposeTemplates ==
  {Missing, Faulty} \cup {Renders(t) : t \in TextsUpTo({"a", SP, NL}, MaxLen)}

\* the templates that render at most n characters
Within(n) == {t \in ComposeTemplates : Len(t.text) <= n}

\* templates is one of the assignments of templates to the five registry
\* entries that render at most MaxChars characters together
ComposeFamily ==
  \E t1 \in Within(MaxChars) :
  \E t2 \in Within(MaxChars - Len(t1.text)) :
  \E t3 \in Within(MaxChars - Len(t1.text) - Len(t2.text)) :
  \E t4 \in Within(MaxChars - Len(t1.text) - Len(t2.text) - Len(t3.text)) :
  \E t5 \in Within(MaxChars - Len(t1.text) - Len(t2.text) - Len(t3.text)
                     - Len(t4.text)) :
    templates = <<t1, t2, t3, t4, t5>>

InitSnowIdle ==
  /\ spc = "idle"
  /\ creds = FALSE
  /\ workflow_status = "unknown"
  /\ snow_status = None
  /\ getResp = NoResponse
  /\ putTarget = None
  /\ putResp = NoResponse
  /\ success = FALSE
  /\ snowExit = 0

InitRenderFresh ==
  /\ data = None
  /\ idx = 0
  /\ config_sections = <<>>
  /\ appended = <<>>
  /\ returned = <<>>
  /\ complete_config = <<>>
  /\ config_text = <<>>
  /\ validation_errors = <<>>
  /\ validation_passed = FALSE
  /\ validated = FALSE
  /\ written = FALSE
  /\ exitCode = 0
  /\ failedIn = None

Init ==
  /\ pc = "start"
  /\ output_dir \in 0..MaxDepth
  /\ validate \in BOOLEAN
  /\ chain \in {c \in [Depths -> Kinds] : ValidChain(c, output_dir)}
  /\ defaultOut \in (IF output_dir = 0 THEN Kinds ELSE {"none"})
  /\ input \in Inputs
  /\ templates \in [1..Len(template_files) -> PipelineTemplates]
  /\ origFile \in (IF DestParentExists
                   THEN {FileAbsent, FileIsDir, FileWith(OldText)}
                   ELSE {FileAbsent})
  /\ outFile = origFile
  /\ InitRenderFresh
  /\ InitSnowIdle

(***************************************************************************)
(* main() of render_config.py, step by step.                               *)
(***************************************************************************)
\* ConfigRenderer.__init__: self.output_dir.mkdir(exist_ok=True)
Ctor ==
  /\ pc = "start"
  /\ mkdir(CtorTargetKind, CtorParentIsDir) # "raise"
  /\ IF output_dir = 0
     THEN defaultOut' = "dir" /\ UNCHANGED chain
     ELSE chain' = [chain EXCEPT ![output_dir] = "dir"] /\ UNCHANGED defaultOut
  /\ pc' = "load"
  /\ UNCHANGED <<output_dir, validate, input, data, templates, idx,
                 config_sections, appended, returned, complete_config,
                 outFile, origFile, config_text, validation_errors,
                 validation_passed, validated, written, exitCode, failedIn>>
  /\ UNCHANGED snowVars

\* ConfigRenderer.__init__ when mkdir raises: the exception is not caught
CtorRaises ==
  /\ pc = "start"
  /\ mkdir(CtorTargetKind, CtorParentIsDir) = "raise"
  /\ pc' = "exited"
  /\ exitCode' = 1
  /\ failedIn' = "init"
  /\ UNCHANGED <<output_dir, validate, chain, defaultOut, input, data,
                 templates, idx, config_sections, appended, returned,
                 complete_config, outFile, origFile, config_text,
                 validation_errors, validation_passed, validated, written>>
  /\ UNCHANGED snowVars

\* a loader that takes a missing source for an empty document
LoadResult_lenient(src) ==
  IF src = "malformed" THEN "YAMLError" ELSE "loaded"

\* what load_yaml_input does with the input source
LoadResult(src) ==
  IF src \in {"nodir", "missing"} THEN "FileNotFoundError"
  ELSE IF src = "malformed" THEN "YAMLError"
  ELSE "loaded"

\* load_yaml_input returns the document; render_all_templates is entered
load_yaml_input ==
  /\ pc = "load"
  /\ LoadResult(input) = "loaded"
  /\ data' = input
  /\ idx' = 1
  /\ config_sections' = <<>>
  /\ pc' = "render"
  /\ UNCHANGED <<output_dir, validate, chain, defaultOut, input, templates,
                 appended, returned, complete_config, outFile, origFile,
                 config_text, validation_errors, validation_passed, validated,
                 written,
                 exitCode, failedIn>>
  /\ UNCHANGED snowVars

\* load_yaml_input: sys.exit(1) on FileNotFoundError and on YAMLError
load_yaml_input_fails ==
  /\ pc = "load"
  /\ LoadResult(input) # "loaded"
  /\ pc' = "exited"
  /\ exitCode' = 1
  /\ failedIn' = "load"
  /\ UNCHANGED <<output_dir, validate, chain, defaultOut, input, data,
                 templates, idx, config_sections, appended, returned,
                 complete_config, outFile, origFile, config_text,
                 validation_errors, validation_passed, validated, written>>
  /\ UNCHANGED snowVars

\* one pass of the loop of render_all_templates
RenderSection ==
  /\ pc = "render"
  /\ idx <= Len(template_files)
  /\ LET name == SectionAt(idx)
         rendered == render_template(templates[idx], data)
     IN  /\ returned' = Append(returned, rendered)
         /\ IF KeepSection(rendered)
            THEN /\ config_sections' = Append(config_sections, rendered)
                 /\ appended' = Append(appended, name)
            ELSE UNCHANGED <<config_sections, appended>>
  /\ idx' = idx + 1
  /\ UNCHANGED <<pc, output_dir, validate, chain, defaultOut, input, data,
                 templates, complete_config, outFile, origFile, config_text,
                 validation_errors, validation_passed, validated, written, exitCode,
                 failedIn>>
  /\ UNCHANGED snowVars

\* the end of render_all_templates: join, write the file, return the text
RenderWrite ==
  /\ pc = "render"
  /\ idx > Len(template_files)
  /\ complete_config' = Combine(config_sections)
  /\ IF WriteFile(outFile, complete_config') = "raise"
     THEN /\ pc' = "exited"
          /\ exitCode' = 1
          /\ failedIn' = "write"
          /\ UNCHANGED <<outFile, written>>
     ELSE /\ pc' = "rendered"
          /\ outFile' = FileWith(WrittenText(complete_config'))
          /\ written' = TRUE
          /\ UNCHANGED <<exitCode, failedIn>>
  /\ UNCHANGED <<output_dir, validate, chain, defaultOut, input, data,
                 templates, idx, config_sections, appended, returned,
                 origFile, config_text, validation_errors, validation_passed,
                 validated>>
  /\ UNCHANGED snowVars

\* a main() that validates whether or not --validate was given
RunsValidator_always(flag) == TRUE

\* main(): whether validate_config is called
RunsValidator(flag) == flag

\* main(): the exit status once validate_config has returned
ExitAfterValidation(passed) == IF passed THEN 0 ELSE 1

\* main() with --validate: validate_config(config), sys.exit(1) on failure
MainValidate ==
  /\ pc = "rendered"
  /\ RunsValidator(validate)
  /\ config_text' = complete_config
  /\ validation_errors' = ValidationErrors(complete_config)
  /\ validation_passed' = validate_config(complete_config)
  /\ validated' = TRUE
  /\ exitCode' = ExitAfterValidation(validation_passed')
  /\ failedIn' = IF validation_passed' THEN None ELSE "validate"
  /\ pc' = "exited"
  /\ UNCHANGED <<output_dir, validate, chain, defaultOut, input, data,
                 templates, idx, config_sections, appended, returned,
                 complete_config, outFile, origFile, written>>
  /\ UNCHANGED snowVars

\* main() without --validate: falls through to the end
MainFinish ==
  /\ pc = "rendered"
  /\ ~RunsValidator(validate)
  /\ pc' = "exited"
  /\ exitCode' = 0
  /\ UNCHANGED <<output_dir, validate, chain, defaultOut, input, data,
                 templates, idx, config_sections, appended, returned,
                 complete_config, outFile, origFile, config_text,
                 validation_errors, validation_passed, validated, written, failedIn>>
  /\ UNCHANGED snowVars

Next ==
  \/ Ctor
  \/ CtorRaises
  \/ load_yaml_input
  \/ load_yaml_input_fails
  \/ RenderSection
  \/ RenderWrite
  \/ MainValidate
  \/ MainFinish

Spec == Init /\ [][Next]_vars

(***************************************************************************)
(* render_all_templates alone, over a wider range of templates.            *)
(***************************************************************************)
InitCompose ==
  /\ pc = "render"
  /\ output_dir = 1
  /\ validate = FALSE
  /\ chain = [k \in Depths |-> IF k = 1 THEN "dir" ELSE "none"]
  /\ defaultOut = "none"
  /\ input \in {"mapping", "notmapping"}
  /\ data = input
  /\ ComposeFamily
  /\ origFile = FileAbsent
  /\ outFile = origFile
  /\ idx = 1
  /\ config_sections = <<>>
  /\ appended = <<>>
  /\ returned = <<>>
  /\ complete_config = <<>>
  /\ config_text = <<>>
  /\ validation_errors = <<>>
  /\ validation_passed = FALSE
  /\ validated = FALSE
  /\ written = FALSE
  /\ exitCode = 0
  /\ failedIn = None
  /\ InitSnowIdle

NextCompose ==
  \/ RenderSection
  \/ RenderWrite

SpecCompose == InitCompose /\ [][NextCompose]_vars

(***************************************************************************)
(* validate_config alone, over arbitrary short texts.                      *)
(***************************************************************************)
\* "no issues here\nbad line \nclean\n"
ScenarioText ==
  <<"n","o",SP,"i","s","s","u","e","s",SP,"h","e","r","e",NL,
    "b","a","d",SP,"l","i","n","e",SP,NL,
    "c","l","e","a","n",NL>>

ValidatorTexts == TextsUpTo({"a", SP, NL, BANG}, MaxTextLen) \cup {ScenarioText}

InitValidate ==
  /\ pc = "validate"
  /\ output_dir = 0
  /\ validate = TRUE
  /\ chain = [k \in Depths |-> "none"]
  /\ defaultOut = "dir"
  /\ input = "mapping"
  /\ templates = [i \in 1..Len(template_files) |-> Missing]
  /\ origFile = FileAbsent
  /\ outFile = origFile
  /\ data = None
  /\ idx = 0
  /\ config_sections = <<>>
  /\ appended = <<>>
  /\ returned = <<>>
  /\ complete_config = <<>>
  /\ config_text \in ValidatorTexts
  /\ validation_errors = <<>>
  /\ validation_passed = FALSE
  /\ validated = FALSE
  /\ written = FALSE
  /\ exitCode = 0
  /\ failedIn = None
  /\ InitSnowIdle

\* a call of validate_config(config_text)
CallValidate ==
  /\ pc = "validate"
  /\ validation_errors' = ValidationErrors(config_text)
  /\ validation_passed' = validate_config(config_text)
  /\ validated' = TRUE
  /\ pc' = "validated"
  /\ UNCHANGED <<output_dir, validate, chain, defaultOut, input, data,
                 templates, idx, config_sections, appended, returned,
                 complete_config, outFile, origFile, config_text, written,
                 exitCode, failedIn>>
  /\ UNCHANGED snowVars

NextValidate == CallValidate

SpecValidate == InitValidate /\ [][NextValidate]_vars


(***************************************************************************)
(* main() of servicenow_integration.py.                                    *)
(***************************************************************************)
WorkflowStatuses == {Unset, "success", "failure", "cancelled", "skipped", ""}

InitRenderIdle ==
  /\ pc = "idle"
  /\ output_dir = 0
  /\ validate = FALSE
  /\ chain = [k \in Depths |-> "none"]
  /\ defaultOut = "none"
  /\ input = "mapping"
  /\ templates = [i \in 1..Len(template_files) |-> Missing]
  /\ origFile = FileAbsent
  /\ outFile = origFile
  /\ InitRenderFresh

InitSnow ==
  /\ spc = "start"
  /\ creds \in BOOLEAN
  /\ workflow_status \in WorkflowStatuses
  /\ snow_status = None
  /\ getResp = NoResponse
  /\ putTarget = None
  /\ putResp = NoResponse
  /\ success = FALSE
  /\ snowExit = 0
  /\ InitRenderIdle

\* main(): credentials missing, the integration is skipped
SnowSkip ==
  /\ spc = "start"
  /\ ~creds
  /\ spc' = "returned"
  /\ UNCHANGED <<creds, workflow_status, snow_status, getResp, putTarget,
                 putResp, success, snowExit>>
  /\ UNCHANGED renderVars

\* main() maps the status and calls update_change_request, which sends the
\* lookup; a lookup that does not let it go on ends the process
SnowLookup ==
  /\ spc = "start"
  /\ creds
  /\ snow_status' = status_mapping(GetEnv(workflow_status, "unknown"))
  /\ \E resp \in GetResponses :
       /\ getResp' = resp
       /\ IF LookupOutcome(resp) = "proceed"
          THEN /\ spc' = "update"
               /\ UNCHANGED <<success, snowExit>>
          ELSE /\ spc' = "exited"
               /\ success' = FALSE
               /\ snowExit' = 1
  /\ UNCHANGED <<creds, workflow_status, putTarget, putResp>>
  /\ UNCHANGED renderVars

\* update_change_request sends the update and returns; main() exits
SnowUpdate ==
  /\ spc = "update"
  /\ putTarget' = TargetOf(getResp)
  /\ \E resp \in PutResponses :
       /\ putResp' = resp
       /\ success' = UpdateReturns(resp)
       /\ snowExit' = IF success' THEN 0 ELSE 1
  /\ spc' = "exited"
  /\ UNCHANGED <<creds, workflow_status, snow_status, getResp>>
  /\ UNCHANGED renderVars

NextSnow ==
  \/ SnowSkip
  \/ SnowLookup
  \/ SnowUpdate

SpecSnow == InitSnow /\ [][NextSnow]_vars


(***************************************************************************)
(* Properties.                                                             *)
(***************************************************************************)
\* the order the registry is declared in
RegistryOrder == <<"bgp", "routing_filters", "interfaces", "vlans", "system">>

PosOf(name) == CHOOSE i \in 1..Len(RegistryOrder) : RegistryOrder[i] = name

\* a text that trims to nothing
IsBlank(t) == \A i \in 1..Len(t) : t[i] \in Whitespace

\* texts put one after the other with exactly one newline between two
RECURSIVE NewlineJoined(_)
NewlineJoined(texts) ==
  IF Len(texts) = 0 THEN <<>>
  ELSE IF Len(texts) = 1 THEN texts[1]
  ELSE NewlineJoined(SubSeq(texts, 1, Len(texts) - 1)) \o <<NL>> \o texts[Len(texts)]

\* the registry entries whose render ends in an unresolved template or a fault
Fails(i) == templates[i].kind \in {"missing", "faulty"} \/ data # "mapping"

\* the texts of the entries in positions from..5 that do not fail and do
\* not trim to nothing: the composition with the failing entries absent
RECURSIVE TextsWithoutFailing(_)
TextsWithoutFailing(from) ==
  IF from > Len(RegistryOrder) THEN <<>>
  ELSE (IF ~Fails(from) /\ ~IsBlank(templates[from].text)
        THEN <<templates[from].text>> ELSE <<>>) \o TextsWithoutFailing(from + 1)

\* C1: the sections of the composed configuration are in the registry's
\* declared order (bgp, routing_filters, interfaces, vlans, system), none
\* twice: the names appended have strictly increasing registry positions,
\* each accumulated text is the text of the section at that position, and
\* the composed text is these texts in that order
C1_SectionOrder ==
  /\ Len(appended) = Len(config_sections)
  /\ \A i \in 1..Len(appended) : appended[i] \in SectionNames
  /\ \A i, j \in 1..Len(appended) :
       i < j => PosOf(appended[i]) < PosOf(appended[j])
  /\ \A i \in 1..Len(appended) :
       config_sections[i] = templates[PosOf(appended[i])].text
  /\ pc = "rendered" =>
       complete_config =
         NewlineJoined([i \in 1..Len(appended) |-> templates[PosOf(appended[i])].text])

\* C1 witness: a composed configuration of three sections with omitted
\* sections between them
C1_Witness ==
  /\ pc = "rendered"
  /\ appended = <<"bgp", "interfaces", "system">>

\* C2: a section whose template is unresolved or whose render raises
\* returns the empty string, the loop goes on to the last registry entry,
\* and the composed configuration is the one composed with the failing
\* entries absent
C2_RenderNeverFails ==
  /\ \A i \in 1..Len(returned) : Fails(i) => returned[i] = <<>>
  /\ (pc = "render" /\ idx <= Len(RegistryOrder)) => Len(returned) = idx - 1
  /\ pc = "rendered" =>
       /\ Len(returned) = Len(RegistryOrder)
       /\ complete_config = NewlineJoined(TextsWithoutFailing(1))
  /\ failedIn # "render"

\* C2 witness: an unresolved template and a faulting template between two
\* sections that render, which compose as if the two were adjacent
C2_Witness ==
  /\ pc = "rendered"
  /\ data = "mapping"
  /\ templates[1].kind = "renders" /\ ~IsBlank(templates[1].text)
  /\ templates[2].kind = "missing"
  /\ templates[3].kind = "faulty"
  /\ templates[4].kind = "renders" /\ ~IsBlank(templates[4].text)
  /\ complete_config = templates[1].text \o <<NL>> \o templates[4].text

\* C3: the composed configuration is the single-newline join of the
\* untrimmed rendered texts of the entries whose trimmed text is not empty,
\* in registry order; an empty or whitespace-only render adds nothing
C3_ComposedText ==
  pc = "rendered" =>
    complete_config = NewlineJoined(SelectSeq(returned, LAMBDA t : ~IsBlank(t)))

\* C3 witness: a section with surrounding whitespace kept untrimmed, an
\* unresolved section and a further section compose with one separator
C3_Witness ==
  /\ pc = "rendered"
  /\ returned[1] = <<SP, "a">>
  /\ templates[2].kind = "missing"
  /\ returned[3] = <<"a">>
  /\ complete_config = <<SP, "a", NL, "a">>

\* the whitespace-only case of C3 on its own: a whitespace-only render
\* before a kept one leaves no separator
C3_BlankOmitted ==
  /\ pc = "rendered"
  /\ returned[1] = <<SP>>
  /\ returned[2] = <<"a">>
  /\ complete_config = <<"a">>


\* the line numbers of the non-blank, non-comment lines of a text that end
\* in whitespace
RawLines(text) == Split(text)
HasTrailingWhitespace(raw) == raw # <<>> /\ raw[Len(raw)] \in Whitespace
IsComment(raw) == LStrip(raw) # <<>> /\ LStrip(raw)[1] = BANG
ShouldFlag(raw) == ~IsBlank(raw) /\ ~IsComment(raw) /\ HasTrailingWhitespace(raw)
FlaggedLines(text) ==
  SelectSeq([i \in 1..Len(RawLines(text)) |-> i],
            LAMBDA i : ShouldFlag(RawLines(text)[i]))

\* C4: validate_config flags every non-blank, non-comment line that has
\* trailing whitespace and passes iff it flagged none; for the text
\* "no issues here\nbad line \nclean\n" it fails with the one finding, line 2
C4_FlagsTrailingWhitespace ==
  pc = "validated" =>
    /\ validation_errors = FlaggedLines(config_text)
    /\ validation_passed <=> (FlaggedLines(config_text) = <<>>)
    /\ config_text = ScenarioText =>
         (~validation_passed /\ validation_errors = <<2>>)

\* what validate_config does instead: it passes every text and finds nothing
C4_AlwaysPasses ==
  pc = "validated" => (validation_passed /\ validation_errors = <<>>)

\* C5 as stated: with the input source missing the run ends in the Input
\* Loader with a non-zero exit, before any render or write, and the
\* destination file is as it was
C5_FailsInLoader ==
  input \in {"nodir", "missing"} =>
    /\ returned = <<>> /\ ~written /\ outFile = origFile
    /\ pc \in {"start", "load", "exited"}
    /\ pc = "exited" => (exitCode # 0 /\ failedIn = "load")

\* C5 amended: with the input source missing the run ends with a non-zero
\* exit before any render or write and the destination file is as it was;
\* the exit is the Input Loader's exactly when the constructor's mkdir of
\* the output directory did not raise, and the constructor's otherwise
C5_MissingInputIsFatal ==
  input \in {"nodir", "missing"} =>
    /\ returned = <<>> /\ ~written /\ outFile = origFile
    /\ pc \in {"start", "load", "exited"}
    /\ pc = "exited" =>
         /\ exitCode # 0
         /\ failedIn \in {"init", "load"}
         /\ failedIn = "load" <=> CtorTargetKind = "dir"

\* C5 witness: the input file is missing beside an existing output file;
\* the loader ended the run and the file is untouched
C5_Witness ==
  /\ input = "missing"
  /\ pc = "exited"
  /\ failedIn = "load"
  /\ exitCode = 1
  /\ origFile = FileWith(OldText)
  /\ outFile = origFile

\* no prefix of the --output-dir path is a regular file
NoFileOnPath == \A k \in Depths : chain[k] # "file"

\* C6: whenever the text is written the destination's parent exists, and
\* for an output directory given at any nesting depth the run creates it
\* when it does not exist: once the constructor has run, the directory is
\* there and the run did not end in the constructor
C6_ParentCreated ==
  /\ written => DestParentExists
  /\ (output_dir > 0 /\ NoFileOnPath /\ pc # "start") =>
       (chain[output_dir] = "dir" /\ failedIn # "init")

\* C7: once the document is loaded and the artifact written, the exit is
\* non-zero iff --validate was given and validate_config returned fail;
\* without the flag the Validator never runs; failed sections alone leave
\* the exit at zero
C7_ExitStatus ==
  /\ ~validate => ~validated
  /\ (pc = "exited" /\ written) =>
       /\ (exitCode # 0) <=> (validate /\ validated /\ ~validation_passed)
       /\ validate => validated
       /\ ((\E i \in 1..Len(RegistryOrder) : Fails(i))
             /\ (~validate \/ validation_passed)) => exitCode = 0

\* C7 witness: --validate given, sections failed, the Validator ran and
\* passed, exit status zero
C7_Witness ==
  /\ pc = "exited"
  /\ written
  /\ validate
  /\ validated
  /\ \E i \in 1..Len(RegistryOrder) : Fails(i)
  /\ complete_config # <<>>
  /\ exitCode = 0

\* C10: the steps run in the order load, compose, write, validate: sections
\* are rendered only from a loaded document, the file is written only
\* after all five sections were visited, the Validator runs only after the
\* write and on exactly the written text, and the written file stays as it
\* is whatever the Validator returns
C10_StepOrder ==
  /\ Len(returned) > 0 => data \in {"mapping", "notmapping"}
  /\ written =>
       /\ Len(returned) = Len(RegistryOrder)
       /\ outFile = FileWith(complete_config)
  /\ validated =>
       /\ written
       /\ config_text = complete_config
       /\ outFile = FileWith(config_text)

\* C10 witness: a non-empty configuration was written over an old file and
\* then validated
C10_Witness ==
  /\ pc = "exited"
  /\ validated
  /\ origFile = FileWith(OldText)
  /\ complete_config # <<>>
  /\ outFile = FileWith(config_text)

\* C8: the label passed to update_change_request is Review for success,
\* Authorize for failure, Cancelled for cancelled, and Authorize for every
\* other value of WORKFLOW_STATUS, the unset one included
C8_StatusLabel ==
  spc \in {"update", "exited"} =>
    /\ workflow_status = "success" => snow_status = "Review"
    /\ workflow_status = "failure" => snow_status = "Authorize"
    /\ workflow_status = "cancelled" => snow_status = "Cancelled"
    /\ workflow_status \notin {"success", "failure", "cancelled"} =>
         snow_status = "Authorize"

\* C8 witness: WORKFLOW_STATUS unset, the update went out with Authorize
C8_Witness ==
  /\ spc = "exited"
  /\ workflow_status = Unset
  /\ putResp.kind = "http"
  /\ snow_status = "Authorize"

\* the lookup came back with a status other than 200 or with no record
LookupEmpty ==
  /\ getResp.kind = "http"
  /\ \/ getResp.code # 200
     \/ getResp.json /\ (~getResp.hasResult \/ getResp.result = <<>>)

\* C9: the update is sent only after the lookup returned 200 with at least
\* one record, and to that record's id; a lookup with another status or
\* with no record sends no update, returns False and exits non-zero
C9_UpdateAfterLookup ==
  /\ (spc = "update" \/ putResp.kind # "none" \/ putTarget # None) =>
       /\ getResp.kind = "http"
       /\ getResp.code = 200
       /\ getResp.hasResult
       /\ Len(getResp.result) >= 1
  /\ putResp.kind # "none" => putTarget = getResp.result[1].sys_id
  /\ LookupEmpty =>
       /\ putResp.kind = "none"
       /\ putTarget = None
       /\ spc = "exited"
       /\ ~success
       /\ snowExit # 0

\* C9 witness: the lookup found two records and the update went to the
\* first one's id
C9_Witness ==
  /\ spc = "exited"
  /\ getResp.result = <<Record("id2"), Record("id1")>>
  /\ putTarget = "id2"
  /\ putResp.kind = "http"
  /\ putResp.code = 200
  /\ success
  /\ snowExit = 0

\* C9 witness of the other branch: the lookup returned 200 with no record
C9_NotFound ==
  /\ spc = "exited"
  /\ getResp.code = 200
  /\ getResp.hasResult
  /\ getResp.result = <<>>
  /\ putResp.kind = "none"
  /\ snowExit = 1

====
